---- MODULE Spec2Model ----
(***************************************************************************)
(* Model of the resilience utilities of ludus_mcp.utils:                   *)
(*   rate_limit.py  RateLimiter        (sliding window, asyncio.Lock)      *)
(*   cache.py       AsyncLRUCache      (TTL + size-bounded store)          *)
(*   retry.py       async_retry        (exponential backoff wrapper)       *)
(* Time is an integer clock `now` (datetime.now()); callers are asyncio    *)
(* tasks that interleave only at await points.                             *)
(***************************************************************************)
EXTENDS Integers, Sequences, FiniteSets

VARIABLES
    now,            \* datetime.now(), in ticks
    \* ---- RateLimiter -------------------------------------------------
    max_requests,   \* self.max_requests
    window,         \* self.window, in ticks
    requests,       \* self.requests: deque of admission timestamps
    lockHolder,     \* task whose frame holds self._lock, or NoTask
    lockWaiters,    \* FIFO of tasks suspended in self._lock.acquire()
    rpc,            \* per task: position inside acquire()
    wakeAt,         \* per task: end of its asyncio.sleep
    calledAt,       \* per task: time its acquire() call in progress began
    blockedBehind,  \* per task: requests[0] its call found the window full behind
    lastAdmitted,   \* history: the task that recorded the newest timestamp
    lastCancelled,  \* history: the task whose call was cancelled last
    admitLog,       \* history: number of timestamps recorded at each instant
    usage,          \* history: the last get_current_usage()/reset() and its result
    \* ---- AsyncLRUCache -----------------------------------------------
    max_size,       \* self.max_size
    ttl,            \* self.ttl, in ticks
    cache,          \* self.cache: entries in dict (insertion) order
    hits,           \* self._hits
    misses,         \* self._misses
    cpc,            \* per caller: position inside get_or_set()
    ckey,           \* per caller: key of its call
    cval,           \* per caller: value its func invocation produces
    fnCalls,        \* history: number of invocations of func so far
    recency,        \* history: keys stored, least recently touched first
    prev,           \* per caller: its last completed insertion, if intact
    ev,             \* history: the last cache operation and what it saw
    cacheLockHolder,\* caller whose frame holds the cache's self._lock, or NoTask
    \* ---- async_retry -------------------------------------------------
    max_attempts,   \* max_attempts
    backoff_factor, \* backoff_factor
    initial_delay,  \* initial_delay
    max_delay,      \* max_delay
    wpc,            \* position of the wrapper
    attempt,        \* loop variable of `for attempt in range(max_attempts)`
    last_exception, \* last_exception
    delay,          \* argument of the pending asyncio.sleep
    outcomes,       \* history: outcome of each invocation of func
    sleeps,         \* history: arguments of the asyncio.sleep calls made
    result,         \* value returned by the wrapper
    raised,         \* error raised by the wrapper
    \* ---- RetryContext (same configuration as the wrapper) -------------
    ctx_attempt,    \* self.attempt
    ctx_last_exception, \* self.last_exception
    xpc,            \* position of the loop driving the context
    ctxOutcomes,    \* history: outcome of each run of the guarded body
    ctxSleeps,      \* history: arguments of the asyncio.sleep calls made
    ctxResult,      \* value the loop ends with
    ctxRaised,      \* error that propagates out of the `async with`
    \* ---- module globals ------------------------------------------------
    global_cache,   \* _global_cache: 0 for None, else the n-th instance built
    global_rate_limiter, \* _global_rate_limiter, likewise
    decl,           \* per key: ttl_seconds given to the cached() that wraps it
    first,          \* history: arguments of the first get_cache/get_rate_limiter
    got,            \* history: the last get_* call and what it returned
    \* ---- AsyncLRUCache._make_key -------------------------------------
    calls,          \* the calls whose key was derived, in order
    keys            \* the string each of them gave to hashlib.md5

rateVars == <<max_requests, window, requests, lockHolder, lockWaiters, rpc,
              wakeAt, calledAt, blockedBehind, lastAdmitted, lastCancelled,
              admitLog, usage>>

cacheVars == <<max_size, ttl, cache, hits, misses, cpc, ckey, cval, fnCalls,
               recency, prev, ev, cacheLockHolder>>

retryVars == <<max_attempts, backoff_factor, initial_delay, max_delay, wpc,
               attempt, last_exception, delay, outcomes, sleeps, result,
               raised>>

ctxVars == <<ctx_attempt, ctx_last_exception, xpc, ctxOutcomes, ctxSleeps,
             ctxResult, ctxRaised>>

globalVars == <<global_cache, global_rate_limiter, decl, first, got>>

keyVars == <<calls, keys>>

vars == <<now, rateVars, cacheVars, retryVars, ctxVars, globalVars, keyVars>>

(***************************************************************************)
(* Bounds of the model                                                     *)
(***************************************************************************)
MaxTime == 3
NumTasks == 2
MaxReq == 2
MaxWindow == 2
MaxAdminCalls == 2

Tasks == 1..NumTasks
NoTask == 0
None == -1
\* no result of get_current_usage() or reset() yet
NoUsage == [op |-> "none", calls |-> 0, removed |-> 0,
            current_requests |-> None,
            max_requests |-> None, window_seconds |-> None,
            utilization_percent |-> None]
Times == 0..MaxTime

(***************************************************************************)
(* RateLimiter                                                             *)
(***************************************************************************)
RateInit ==
    /\ max_requests \in 1..MaxReq
    /\ window \in 1..MaxWindow
    /\ requests = <<>>
    /\ lockHolder = NoTask
    /\ lockWaiters = <<>>
    /\ rpc = [t \in Tasks |-> "idle"]
    /\ wakeAt = [t \in Tasks |-> None]
    /\ calledAt = [t \in Tasks |-> None]
    /\ lastAdmitted = NoTask
    /\ lastCancelled = NoTask
    /\ blockedBehind = [t \in Tasks |-> None]
    /\ admitLog = [i \in Times |-> 0]
    /\ usage = NoUsage

\* (now - self.requests[0]) > self.window
IsOutsideWindowEager(t, ts) == (t - ts) >= window
IsOutsideWindowNever(t, ts) == FALSE
IsOutsideWindow(t, ts) == (t - ts) > window

\* while self.requests and ...: self.requests.popleft()
RECURSIVE Prune(_, _)
Prune(reqs, t) ==
    IF reqs # <<>> /\ IsOutsideWindow(t, Head(reqs))
    THEN Prune(Tail(reqs), t)
    ELSE reqs

\* if len(self.requests) >= self.max_requests
AtLimitLoose(reqs) == Len(reqs) > max_requests
AtLimit(reqs) == Len(reqs) >= max_requests

\* self.requests.append(now)
RecordFirst(reqs, t) == <<t>> \o reqs
Record(reqs, t) == Append(reqs, t)

RemoveTask(q, t) == SelectSeq(q, LAMBDA x : x # t)

\* The body of `async with self._lock:` run by task t, which has just taken
\* the lock; waiters is the lock's queue at that moment and called the time
\* at which the call began.  The body runs without suspension up to the
\* sleep, the recursive call or the release of the lock.
LockedBody(t, waiters, called) ==
    LET pruned == Prune(requests, now) IN
    IF AtLimit(pruned)
    THEN LET oldest_request == Head(pruned)
             sleep_until == oldest_request + window
             sleep_time == sleep_until - now
         IN /\ requests' = pruned
            /\ lockHolder' = t
            /\ blockedBehind' = [blockedBehind EXCEPT ![t] = oldest_request]
            /\ calledAt' = [calledAt EXCEPT ![t] = called]
            /\ UNCHANGED <<admitLog, lastAdmitted>>
            /\ IF sleep_time > 0
               THEN /\ rpc' = [rpc EXCEPT ![t] = "sleeping"]
                    /\ wakeAt' = [wakeAt EXCEPT ![t] = sleep_until]
                    /\ lockWaiters' = waiters
               ELSE \* return await self.acquire(): the lock is held by the
                    \* caller's own frame and asyncio.Lock is not reentrant
                    /\ rpc' = [rpc EXCEPT ![t] = "recursing"]
                    /\ wakeAt' = [wakeAt EXCEPT ![t] = None]
                    /\ lockWaiters' = Append(waiters, t)
    ELSE /\ requests' = Record(pruned, now)
         /\ admitLog' = [admitLog EXCEPT ![now] = @ + 1]
         /\ lastAdmitted' = t
         /\ blockedBehind' = [blockedBehind EXCEPT ![t] = None]
         /\ calledAt' = [calledAt EXCEPT ![t] = None]
         /\ lockHolder' = NoTask
         /\ lockWaiters' = waiters
         /\ rpc' = [rpc EXCEPT ![t] = "idle"]
         /\ wakeAt' = [wakeAt EXCEPT ![t] = None]

\* A task calls acquire(): it takes the free lock and runs the body at once,
\* or is queued behind the holder.
Acquire(t) ==
    /\ rpc[t] = "idle"
    /\ IF lockHolder = NoTask /\ lockWaiters = <<>>
       THEN LockedBody(t, lockWaiters, now)
       ELSE /\ lockWaiters' = Append(lockWaiters, t)
            /\ rpc' = [rpc EXCEPT ![t] = "lockwait"]
            /\ calledAt' = [calledAt EXCEPT ![t] = now]
            /\ UNCHANGED <<requests, lockHolder, wakeAt, blockedBehind,
                           lastAdmitted, admitLog>>
    /\ UNCHANGED <<now, max_requests, window, lastCancelled, usage, cacheVars,
                   retryVars, ctxVars, globalVars, keyVars>>

\* asyncio.sleep(sleep_time) is over: the recursive self.acquire() asks for
\* the lock, which the caller's outer frame still holds.
Wake(t) ==
    /\ rpc[t] = "sleeping"
    /\ now >= wakeAt[t]
    /\ rpc' = [rpc EXCEPT ![t] = "recursing"]
    /\ wakeAt' = [wakeAt EXCEPT ![t] = None]
    /\ lockWaiters' = Append(lockWaiters, t)
    /\ UNCHANGED <<now, max_requests, window, requests, lockHolder, calledAt,
                   blockedBehind, lastAdmitted, lastCancelled, admitLog,
                   usage, cacheVars, retryVars,
                   ctxVars, globalVars, keyVars>>

\* The lock is free and t is its first waiter: t takes the lock and runs the
\* body.
LockGranted(t) ==
    /\ rpc[t] \in {"lockwait", "recursing"}
    /\ lockHolder = NoTask
    /\ lockWaiters # <<>>
    /\ Head(lockWaiters) = t
    /\ LockedBody(t, Tail(lockWaiters), calledAt[t])
    /\ UNCHANGED <<now, max_requests, window, lastCancelled, usage, cacheVars,
                   retryVars, ctxVars, globalVars, keyVars>>

\* __aexit__ of `async with self._lock` as CancelledError unwinds the frames
\* of task t: the lock is released if one of them holds it.
ReleasedNever(holder, t) == holder
Released(holder, t) == IF holder = t THEN NoTask ELSE holder

\* The task running acquire() is cancelled at its suspension point:
\* CancelledError unwinds its frames, which leaves the lock's queue and
\* releases the lock if one of its frames holds it.  Nothing is recorded.
Cancel(t) ==
    /\ rpc[t] \in {"sleeping", "lockwait", "recursing"}
    /\ rpc' = [rpc EXCEPT ![t] = "idle"]
    /\ wakeAt' = [wakeAt EXCEPT ![t] = None]
    /\ lockWaiters' = RemoveTask(lockWaiters, t)
    /\ lockHolder' = Released(lockHolder, t)
    /\ calledAt' = [calledAt EXCEPT ![t] = None]
    /\ blockedBehind' = [blockedBehind EXCEPT ![t] = None]
    /\ lastCancelled' = t
    /\ UNCHANGED <<now, max_requests, window, requests, lastAdmitted,
                   admitLog, usage, cacheVars, retryVars,
                   ctxVars, globalVars, keyVars>>

\* Time passes.
RateTick ==
    /\ now < MaxTime
    /\ now' = now + 1
    /\ UNCHANGED <<rateVars, cacheVars, retryVars,
                   ctxVars, globalVars, keyVars>>

RateNext ==
    \/ RateTick
    \/ \E t \in Tasks : Acquire(t)
    \/ \E t \in Tasks : Wake(t)
    \/ \E t \in Tasks : LockGranted(t)
    \/ \E t \in Tasks : Cancel(t)

\* get_current_usage(): a plain function, which runs to its end without
\* suspension and does not take self._lock; the percentage is rounded down.
GetCurrentUsage ==
    /\ usage.calls < MaxAdminCalls
    /\ LET pruned == Prune(requests, now) IN
         /\ requests' = pruned
         /\ usage' = [op |-> "usage",
                      calls |-> usage.calls + 1,
                      removed |-> Len(requests) - Len(pruned),
                      current_requests |-> Len(pruned),
                      max_requests |-> max_requests,
                      window_seconds |-> window,
                      utilization_percent |->
                          (Len(pruned) * 100) \div max_requests]
    /\ UNCHANGED <<now, max_requests, window, lockHolder, lockWaiters, rpc,
                   wakeAt, calledAt, blockedBehind, lastAdmitted,
                   lastCancelled, admitLog, cacheVars, retryVars, ctxVars,
                   globalVars, keyVars>>

\* reset(): self.requests.clear(), likewise without the lock
Reset ==
    /\ usage.calls < MaxAdminCalls
    /\ requests' = <<>>
    /\ usage' = [NoUsage EXCEPT !.op = "reset",
                                !.calls = usage.calls + 1,
                                !.removed = Len(requests)]
    /\ UNCHANGED <<now, max_requests, window, lockHolder, lockWaiters, rpc,
                   wakeAt, calledAt, blockedBehind, lastAdmitted,
                   lastCancelled, admitLog, cacheVars, retryVars, ctxVars,
                   globalVars, keyVars>>

\* acquire() together with the two plain methods
RateOpsNext ==
    \/ RateNext
    \/ GetCurrentUsage
    \/ Reset

(***************************************************************************)
(* AsyncLRUCache                                                           *)
(***************************************************************************)
MaxCacheTime == 2
NumCallers == 2
NumKeys == 3
MaxSize == 2
MaxTtl == 2
MaxLookups == 4

Callers == 1..NumCallers
Keys == 1..NumKeys

NoPrev == [key |-> None, val |-> None, at |-> None]
NoEvent == [op |-> "none", task |-> NoTask, key |-> None, val |-> None,
            seen |-> None, prior |-> NoPrev, fnBefore |-> 0,
            evicted |-> None, evictedTime |-> None, order |-> <<>>]

CacheInit ==
    /\ cacheLockHolder = NoTask
    /\ max_size \in 1..MaxSize
    /\ ttl \in 1..MaxTtl
    /\ cache = <<>>
    /\ hits = 0
    /\ misses = 0
    /\ cpc = [t \in Callers |-> "idle"]
    /\ ckey = [t \in Callers |-> None]
    /\ cval = [t \in Callers |-> None]
    /\ fnCalls = 0
    /\ recency = <<>>
    /\ prev = [t \in Callers |-> NoPrev]
    /\ ev = NoEvent

\* position of key k in the dict, 0 if `k not in self.cache`
IndexOf(c, k) ==
    IF \E i \in 1..Len(c) : c[i].key = k
    THEN CHOOSE i \in 1..Len(c) : c[i].key = k
    ELSE 0

\* (now - cached_time) < self.ttl
FreshInclusive(t, cached_time) == (t - cached_time) <= ttl
FreshShort(t, cached_time) == (t - cached_time) < ttl - 1
FreshNever(t, cached_time) == FALSE
Fresh(t, cached_time) == (t - cached_time) < ttl

\* del self.cache[k]
RemoveAll(c, k) == <<>>
RemoveNone(c, k) == c
Remove(c, k) == SelectSeq(c, LAMBDA e : e.key # k)

\* self.cache[k] = (v, t): an existing key keeps its place in the dict
PutKeepFirst(c, k, v, t) ==
    IF IndexOf(c, k) # 0 THEN c
    ELSE Append(c, [key |-> k, value |-> v, time |-> t])
Put(c, k, v, t) ==
    LET e == [key |-> k, value |-> v, time |-> t] IN
    IF IndexOf(c, k) # 0 THEN [c EXCEPT ![IndexOf(c, k)] = e] ELSE Append(c, e)

\* min(self.cache.keys(), key=lambda k: self.cache[k][1]): the first key, in
\* dict order, among those with the smallest timestamp
OldestKeyLast(c) ==
    LET i == CHOOSE i \in 1..Len(c) :
                 /\ \A j \in 1..Len(c) : c[i].time <= c[j].time
                 /\ \A j \in (i + 1)..Len(c) : c[j].time # c[i].time
    IN c[i].key
OldestKey(c) ==
    LET i == CHOOSE i \in 1..Len(c) :
                 /\ \A j \in 1..Len(c) : c[i].time <= c[j].time
                 /\ \A j \in 1..(i - 1) : c[j].time # c[i].time
    IN c[i].key

\* if len(self.cache) > self.max_size
OverSizeSlack(c) == Len(c) > max_size + 1
OverSize(c) == Len(c) > max_size

RemoveKey(r, k) == SelectSeq(r, LAMBDA x : x # k)
Touch(r, k) == Append(RemoveKey(r, k), k)

\* What a miss leaves in the store before func runs: the expired entry of
\* the key is deleted and nothing is stored yet.
AfterMissPlaceholder(c, k) ==
    Append(Remove(c, k), [key |-> k, value |-> None, time |-> now])
AfterMissSweep(c, k) ==
    SelectSeq(c, LAMBDA e : e.key # k /\ Fresh(now, e.time))
AfterMiss(c, k) == IF IndexOf(c, k) # 0 THEN Remove(c, k) ELSE c

\* self._misses += 1
CountMissNever(n) == n
CountMiss(n) == n + 1

\* The holder of self._lock when a caller leaves a locked block: `async with`
\* releases it, so func (line 103) is awaited with the lock free.
LockAfterBlockKept(t) == t
LockAfterBlock(t) == NoTask

\* get_or_set(k, func) up to the call of func: the first `async with
\* self._lock` block (the lock is never held across a suspension, so the
\* block runs at once), then func is invoked on a miss.
Lookup(t, k) ==
    /\ cpc[t] = "idle"
    /\ hits + misses < MaxLookups
    /\ cacheLockHolder = NoTask
    /\ cacheLockHolder' = LockAfterBlock(t)
    /\ LET i == IndexOf(cache, k)
           seen == IF i # 0 THEN cache[i].time ELSE None
           base == [NoEvent EXCEPT !.task = t, !.key = k, !.seen = seen,
                                   !.prior = prev[t], !.fnBefore = fnCalls]
       IN IF i # 0 /\ Fresh(now, cache[i].time)
          THEN /\ hits' = hits + 1
               /\ recency' = Touch(recency, k)
               /\ ev' = [base EXCEPT !.op = "hit", !.val = cache[i].value]
               /\ UNCHANGED <<cache, misses, cpc, ckey, cval, fnCalls>>
          ELSE /\ cache' = AfterMiss(cache, k)
               /\ misses' = CountMiss(misses)
               /\ cpc' = [cpc EXCEPT ![t] = "computing"]
               /\ ckey' = [ckey EXCEPT ![t] = k]
               /\ fnCalls' = fnCalls + 1
               /\ cval' = [cval EXCEPT ![t] = fnCalls + 1]
               /\ recency' = RemoveKey(recency, k)
               /\ ev' = [base EXCEPT !.op = "miss"]
               /\ UNCHANGED hits
    /\ UNCHANGED <<now, max_size, ttl, prev, rateVars, retryVars,
                   ctxVars, globalVars, keyVars>>

\* func has returned: the second `async with self._lock` block stores the
\* result and evicts the oldest entry if the store is over its size limit.
Insert(t) ==
    /\ cpc[t] = "computing"
    /\ cacheLockHolder = NoTask
    /\ cacheLockHolder' = LockAfterBlock(t)
    /\ LET k == ckey[t]
           v == cval[t]
           c1 == Put(cache, k, v, now)
           over == OverSize(c1)
           oldest_key == IF over THEN OldestKey(c1) ELSE None
           r1 == Touch(recency, k)
       IN /\ cache' = IF over THEN Remove(c1, oldest_key) ELSE c1
          /\ recency' = RemoveKey(r1, oldest_key)
          /\ prev' = [u \in Callers |->
                        IF u = t
                        THEN IF oldest_key = k THEN NoPrev
                             ELSE [key |-> k, val |-> v, at |-> now]
                        ELSE IF prev[u].key \in {k, oldest_key} THEN NoPrev
                             ELSE prev[u]]
          /\ ev' = [NoEvent EXCEPT
                      !.op = "insert", !.task = t, !.key = k, !.val = v,
                      !.seen = IF IndexOf(cache, k) # 0
                               THEN cache[IndexOf(cache, k)].time ELSE None,
                      !.fnBefore = fnCalls,
                      !.evicted = oldest_key,
                      !.evictedTime =
                          IF over THEN c1[IndexOf(c1, oldest_key)].time
                          ELSE None,
                      !.order = IF over THEN r1 ELSE <<>>]
    /\ cpc' = [cpc EXCEPT ![t] = "idle"]
    /\ ckey' = [ckey EXCEPT ![t] = None]
    /\ cval' = [cval EXCEPT ![t] = None]
    /\ UNCHANGED <<now, max_size, ttl, hits, misses, fnCalls, rateVars,
                   retryVars, ctxVars, globalVars, keyVars>>

\* invalidate(key): elif key in self.cache: del self.cache[key]
Invalidate(k) ==
    /\ cache' = Remove(cache, k)
    /\ recency' = RemoveKey(recency, k)
    /\ prev' = [u \in Callers |-> IF prev[u].key = k THEN NoPrev ELSE prev[u]]
    /\ ev' = [NoEvent EXCEPT
                !.op = "invalidate", !.key = k,
                !.seen = IF IndexOf(cache, k) # 0
                         THEN cache[IndexOf(cache, k)].time ELSE None]
    /\ UNCHANGED <<now, max_size, ttl, hits, misses, cpc, ckey, cval, fnCalls,
                   cacheLockHolder, rateVars, retryVars, ctxVars, globalVars, keyVars>>

\* func raised (line 103): the error leaves get_or_set, whose second locked
\* block is not reached.
FuncRaises(t) ==
    /\ cpc[t] = "computing"
    /\ cpc' = [cpc EXCEPT ![t] = "idle"]
    /\ ckey' = [ckey EXCEPT ![t] = None]
    /\ cval' = [cval EXCEPT ![t] = None]
    /\ ev' = [NoEvent EXCEPT !.op = "raise", !.task = t, !.key = ckey[t],
                             !.val = cval[t], !.fnBefore = fnCalls]
    /\ UNCHANGED <<now, max_size, ttl, cache, hits, misses, fnCalls, recency,
                   prev, cacheLockHolder, rateVars, retryVars, ctxVars,
                   globalVars, keyVars>>

\* The caller is cancelled at its suspension point, `await func(...)`:
\* CancelledError leaves get_or_set from line 103, outside both locked
\* blocks.
CancelCompute(t) ==
    /\ cpc[t] = "computing"
    /\ cpc' = [cpc EXCEPT ![t] = "idle"]
    /\ ckey' = [ckey EXCEPT ![t] = None]
    /\ cval' = [cval EXCEPT ![t] = None]
    /\ ev' = [NoEvent EXCEPT !.op = "cancel", !.task = t, !.key = ckey[t],
                             !.fnBefore = fnCalls]
    /\ UNCHANGED <<now, max_size, ttl, cache, hits, misses, fnCalls, recency,
                   prev, cacheLockHolder, rateVars, retryVars, ctxVars,
                   globalVars, keyVars>>

\* invalidate(None): self.cache.clear()
InvalidateAll ==
    /\ cache' = <<>>
    /\ recency' = <<>>
    /\ prev' = [u \in Callers |-> NoPrev]
    /\ ev' = [NoEvent EXCEPT !.op = "invalidate"]
    /\ UNCHANGED <<now, max_size, ttl, hits, misses, cpc, ckey, cval, fnCalls,
                   cacheLockHolder, rateVars, retryVars, ctxVars, globalVars, keyVars>>

\* Time passes; ev describes the operation of the current instant only.
CacheTick ==
    /\ now < MaxCacheTime
    /\ now' = now + 1
    /\ ev' = NoEvent
    /\ UNCHANGED <<max_size, ttl, cache, hits, misses, cpc, ckey, cval,
                   fnCalls, recency, prev, cacheLockHolder, rateVars,
                   retryVars, ctxVars, globalVars, keyVars>>

\* get_stats(): a plain function that reads the counters and the store;
\* the rate is rounded down to a whole percentage.
GetStats ==
    LET total_requests == hits + misses
        hit_rate == IF total_requests > 0
                    THEN (hits * 100) \div total_requests ELSE 0
    IN [size |-> Len(cache), max_size |-> max_size, hits |-> hits,
        misses |-> misses, total_requests |-> total_requests,
        hit_rate_percent |-> hit_rate, ttl_seconds |-> ttl]

CacheNext ==
    \/ CacheTick
    \/ \E t \in Callers, k \in Keys : Lookup(t, k)
    \/ \E t \in Callers : Insert(t)
    \/ \E k \in Keys : Invalidate(k)
    \/ InvalidateAll
    \/ \E t \in Callers : FuncRaises(t)
    \/ \E t \in Callers : CancelCompute(t)

(***************************************************************************)
(* async_retry                                                             *)
(***************************************************************************)
MaxAttempts == 3
MaxFactor == 2
MaxInitialDelay == 2
MaxMaxDelay == 4

Outcomes == {"ok", "retryable", "fatal"}
NoError == [kind |-> "none", id |-> None]

RetryInit ==
    /\ max_attempts \in 0..MaxAttempts
    /\ backoff_factor \in 1..MaxFactor
    /\ initial_delay \in 1..MaxInitialDelay
    /\ max_delay \in 1..MaxMaxDelay
    /\ wpc = "idle"
    /\ attempt = 0
    /\ last_exception = None
    /\ delay = None
    /\ outcomes = <<>>
    /\ sleeps = <<>>
    /\ result = None
    /\ raised = NoError

RECURSIVE Pow(_, _)
Pow(b, e) == IF e = 0 THEN 1 ELSE b * Pow(b, e - 1)

Min(a, b) == IF a <= b THEN a ELSE b

\* delay = min(initial_delay * (backoff_factor**attempt), max_delay)
DelayLate(a) == Min(initial_delay * Pow(backoff_factor, a + 1), max_delay)
Delay(a) == Min(initial_delay * Pow(backoff_factor, a), max_delay)

\* if attempt == max_attempts - 1
IsLastAttemptLate(a) == a = max_attempts
IsLastAttempt(a) == a = max_attempts - 1

\* The wrapper is called: last_exception = None, then the first iteration of
\* `for attempt in range(max_attempts)`; an empty range falls through to the
\* end of the function.
Call ==
    /\ wpc = "idle"
    /\ last_exception' = None
    /\ IF 0 < max_attempts
       THEN /\ attempt' = 0
            /\ wpc' = "attempting"
            /\ UNCHANGED result
       ELSE /\ wpc' = "returned"
            /\ result' = None
            /\ UNCHANGED attempt
    /\ UNCHANGED <<now, max_attempts, backoff_factor, initial_delay, max_delay,
                   delay, outcomes, sleeps, raised, rateVars, cacheVars,
                   ctxVars, globalVars, keyVars>>

\* return await func(*args, **kwargs): func raised instead of returning
RaisesAlways(o) == TRUE
Raises(o) == o # "ok"

\* except exceptions as e / issubclass(exc_type, self.exceptions)
IsRetryableAny(o) == TRUE
IsRetryable(o) == o = "retryable"

\* The wrapper and the context are driven with the same operation: the n-th
\* run of the operation has the outcome o in both.
Agrees(o, mine, theirs) ==
    Len(mine) < Len(theirs) => o = theirs[Len(mine) + 1]

\* One pass through the try block: func is invoked for the n-th time and
\* returns the value n, or raises the error n of a retryable or of another
\* class.
Attempt(o) ==
    /\ wpc = "attempting"
    /\ Agrees(o, outcomes, ctxOutcomes)
    /\ outcomes' = Append(outcomes, o)
    /\ LET n == Len(outcomes) + 1 IN
       CASE ~Raises(o) ->
              /\ wpc' = "returned"
              /\ result' = n
              /\ UNCHANGED <<last_exception, delay, sleeps, raised>>
         [] Raises(o) /\ ~IsRetryable(o) ->
              /\ wpc' = "raised"
              /\ raised' = [kind |-> o, id |-> n]
              /\ UNCHANGED <<last_exception, delay, sleeps, result>>
         [] Raises(o) /\ IsRetryable(o) ->
              /\ last_exception' = n
              /\ IF IsLastAttempt(attempt)
                 THEN /\ wpc' = "raised"
                      /\ raised' = [kind |-> o, id |-> n]
                      /\ UNCHANGED <<delay, sleeps>>
                 ELSE /\ wpc' = "sleeping"
                      /\ delay' = Delay(attempt)
                      /\ sleeps' = Append(sleeps, Delay(attempt))
                      /\ UNCHANGED raised
              /\ UNCHANGED result
    /\ UNCHANGED <<now, max_attempts, backoff_factor, initial_delay, max_delay,
                   attempt, rateVars, cacheVars, ctxVars, globalVars, keyVars>>

\* asyncio.sleep(delay) is over: the next iteration of the loop, or, with
\* the range used up, `if last_exception: raise last_exception`.
SleepDone ==
    /\ wpc = "sleeping"
    /\ delay' = None
    /\ IF attempt + 1 < max_attempts
       THEN /\ attempt' = attempt + 1
            /\ wpc' = "attempting"
            /\ UNCHANGED <<result, raised>>
       ELSE /\ UNCHANGED attempt
            /\ IF last_exception # None
               THEN /\ wpc' = "raised"
                    /\ raised' = [kind |-> "retryable", id |-> last_exception]
                    /\ UNCHANGED result
               ELSE /\ wpc' = "returned"
                    /\ result' = None
                    /\ UNCHANGED raised
    /\ UNCHANGED <<now, max_attempts, backoff_factor, initial_delay, max_delay,
                   last_exception, outcomes, sleeps, rateVars, cacheVars,
                   ctxVars, globalVars, keyVars>>

(***************************************************************************)
(* RetryContext, driven by a loop that runs one `async with` per attempt   *)
(* and repeats it while the failure was suppressed                         *)
(***************************************************************************)
CtxInit ==
    /\ ctx_attempt = 0
    /\ ctx_last_exception = None
    /\ xpc = "idle"
    /\ ctxOutcomes = <<>>
    /\ ctxSleeps = <<>>
    /\ ctxResult = None
    /\ ctxRaised = NoError

\* delay = min(self.initial_delay * (self.backoff_factor ** (self.attempt - 1)),
\*             self.max_delay)
CtxDelayUncapped(n) == initial_delay * Pow(backoff_factor, n - 1)
CtxDelay(n) == Min(initial_delay * Pow(backoff_factor, n - 1), max_delay)

\* if self.attempt >= self.max_attempts
CtxExhaustedLate(n) == n > max_attempts
CtxExhausted(n) == n >= max_attempts

\* __aenter__: self.attempt += 1
Enter ==
    /\ xpc = "idle"
    /\ ctx_attempt' = ctx_attempt + 1
    /\ xpc' = "body"
    /\ UNCHANGED <<now, ctx_last_exception, ctxOutcomes, ctxSleeps, ctxResult,
                   ctxRaised, rateVars, cacheVars, retryVars, globalVars, keyVars>>

\* The guarded body runs the operation for the n-th time, then __aexit__
\* decides: nothing raised, an error of another class, the attempts used up,
\* or the delay followed by the suppression of the error.
Body(o) ==
    /\ xpc = "body"
    /\ Agrees(o, ctxOutcomes, outcomes)
    /\ ctxOutcomes' = Append(ctxOutcomes, o)
    /\ LET n == Len(ctxOutcomes) + 1 IN
       CASE ~Raises(o) ->
              /\ xpc' = "returned"
              /\ ctxResult' = n
              /\ UNCHANGED <<ctx_last_exception, ctxSleeps, ctxRaised>>
         [] Raises(o) /\ ~IsRetryable(o) ->
              /\ xpc' = "raised"
              /\ ctxRaised' = [kind |-> o, id |-> n]
              /\ UNCHANGED <<ctx_last_exception, ctxSleeps, ctxResult>>
         [] Raises(o) /\ IsRetryable(o) ->
              /\ ctx_last_exception' = n
              /\ IF CtxExhausted(ctx_attempt)
                 THEN /\ xpc' = "raised"
                      /\ ctxRaised' = [kind |-> o, id |-> n]
                      /\ UNCHANGED ctxSleeps
                 ELSE /\ xpc' = "sleeping"
                      /\ ctxSleeps' = Append(ctxSleeps, CtxDelay(ctx_attempt))
                      /\ UNCHANGED ctxRaised
              /\ UNCHANGED ctxResult
    /\ UNCHANGED <<now, ctx_attempt, rateVars, cacheVars, retryVars,
                   globalVars, keyVars>>

\* asyncio.sleep(delay) is over: __aexit__ returns True, the error is
\* suppressed and the loop goes round.
CtxSleepDone ==
    /\ xpc = "sleeping"
    /\ xpc' = "idle"
    /\ UNCHANGED <<now, ctx_attempt, ctx_last_exception, ctxOutcomes,
                   ctxSleeps, ctxResult, ctxRaised, rateVars, cacheVars,
                   retryVars, globalVars, keyVars>>

\* The wrapper's call has returned or raised and its frame is gone; the
\* caller may call the decorated function again.
WrapperReturn ==
    /\ wpc \in {"returned", "raised"}
    /\ wpc' = "idle"
    /\ outcomes' = <<>>
    /\ sleeps' = <<>>
    /\ result' = None
    /\ raised' = NoError
    /\ delay' = None
    /\ UNCHANGED <<now, max_attempts, backoff_factor, initial_delay, max_delay,
                   attempt, last_exception, rateVars, cacheVars, ctxVars,
                   globalVars, keyVars>>

\* A guarded call is over and the caller guards another operation with the
\* same RetryContext object (`retry` of the class's example): no method
\* runs in between, the object's fields stay as they are.
CtxAgain ==
    /\ xpc \in {"returned", "raised"}
    /\ ctx_attempt <= MaxAttempts
    /\ xpc' = "idle"
    /\ ctxOutcomes' = <<>>
    /\ ctxSleeps' = <<>>
    /\ ctxResult' = None
    /\ ctxRaised' = NoError
    /\ UNCHANGED <<now, ctx_attempt, ctx_last_exception, rateVars, cacheVars,
                   retryVars, globalVars, keyVars>>

\* The caller builds a new RetryContext for the next guarded call:
\* __init__ sets self.attempt = 0 and self.last_exception = None.
CtxNew ==
    /\ xpc \in {"returned", "raised"}
    /\ ctx_attempt' = 0
    /\ ctx_last_exception' = None
    /\ xpc' = "idle"
    /\ ctxOutcomes' = <<>>
    /\ ctxSleeps' = <<>>
    /\ ctxResult' = None
    /\ ctxRaised' = NoError
    /\ UNCHANGED <<now, rateVars, cacheVars, retryVars, globalVars, keyVars>>

\* guarded calls one after another
RetryCallsNext ==
    \/ Call
    \/ \E o \in Outcomes : Attempt(o)
    \/ SleepDone
    \/ Enter
    \/ \E o \in Outcomes : Body(o)
    \/ CtxSleepDone
    \/ WrapperReturn
    \/ CtxAgain
    \/ CtxNew

RetryNext ==
    \/ Call
    \/ \E o \in Outcomes : Attempt(o)
    \/ SleepDone
    \/ Enter
    \/ \E o \in Outcomes : Body(o)
    \/ CtxSleepDone

(***************************************************************************)
(* Module globals: get_cache(), get_rate_limiter() and the cached()        *)
(* decorator.  The instance fields of the global cache and of the global   *)
(* rate limiter are the variables of the two classes above.                *)
(***************************************************************************)
NumFuncs == 2

\* the functions wrapped by @cached; each has its own key (no arguments)
Funcs == 1..NumFuncs

NoCall == [fn |-> "none", args |-> <<>>, inst |-> 0, conf |-> <<>>]

\* if _global_cache is None / if _global_rate_limiter is None
IsNoneAlways(g) == TRUE
IsNone(g) == g = 0

\* get_cache(max_size, ttl_seconds), without the frame of what it leaves
\* alone: AsyncLRUCache(...) is built if there is no instance yet, and the
\* global instance is returned.
GetCacheBody(ms, secs) ==
    /\ IF IsNone(global_cache)
       THEN /\ global_cache' = global_cache + 1
            /\ max_size' = ms
            /\ ttl' = secs
            /\ cache' = <<>>
            /\ hits' = 0
            /\ misses' = 0
            /\ cacheLockHolder' = NoTask
            /\ recency' = <<>>
            /\ prev' = [t \in Callers |-> NoPrev]
       ELSE UNCHANGED <<global_cache, max_size, ttl, cache, hits, misses,
                        cacheLockHolder, recency, prev>>
    /\ first' = IF first.cache = <<>>
                THEN [first EXCEPT !.cache = <<ms, secs>>]
                ELSE first
    /\ got' = [fn |-> "get_cache", args |-> <<ms, secs>>,
               inst |-> global_cache', conf |-> <<max_size', ttl'>>]
    /\ UNCHANGED <<now, global_rate_limiter, cpc, ckey, cval, fnCalls, ev,
                   rateVars, retryVars, ctxVars, keyVars>>

GetCache(ms, secs) ==
    /\ GetCacheBody(ms, secs)
    /\ UNCHANGED decl

\* get_rate_limiter(max_requests, window_seconds)
GetRateLimiter(mr, secs) ==
    /\ IF IsNone(global_rate_limiter)
       THEN /\ global_rate_limiter' = global_rate_limiter + 1
            /\ max_requests' = mr
            /\ window' = secs
            /\ requests' = <<>>
            /\ lockHolder' = NoTask
            /\ lockWaiters' = <<>>
       ELSE UNCHANGED <<global_rate_limiter, max_requests, window, requests,
                        lockHolder, lockWaiters>>
    /\ first' = IF first.limiter = <<>>
                THEN [first EXCEPT !.limiter = <<mr, secs>>]
                ELSE first
    /\ got' = [fn |-> "get_rate_limiter", args |-> <<mr, secs>>,
               inst |-> global_rate_limiter',
               conf |-> <<max_requests', window'>>]
    /\ UNCHANGED <<now, global_cache, decl, rpc, wakeAt, calledAt,
                   blockedBehind, lastAdmitted, lastCancelled, admitLog,
                   usage, cacheVars, retryVars, ctxVars, keyVars>>

\* @cached(ttl_seconds=secs, max_size=ms) applied to function f: the
\* decorator takes its cache from get_cache(max_size=ms, ttl_seconds=secs).
Decorate(f, secs, ms) ==
    /\ decl[f] = None
    /\ GetCacheBody(ms, secs)
    /\ decl' = [decl EXCEPT ![f] = secs]

\* A call of the wrapper of f by caller t, up to the call of f:
\* cache.get_or_set(key, func, ...) on the cache the decorator took.
CachedCall(t, f) ==
    /\ decl[f] # None
    /\ Lookup(t, f)

\* wrapper.cache_invalidate() of the decorated function f, called without
\* a key: lambda key=None: cache.invalidate(key) on the cache the decorator
\* took.
CacheInvalidate(f) ==
    /\ decl[f] # None
    /\ InvalidateAll

GlobalNext ==
    \/ \E ms \in 1..MaxSize, secs \in 1..MaxTtl : GetCache(ms, secs)
    \/ \E mr \in 1..MaxReq, secs \in 1..MaxWindow : GetRateLimiter(mr, secs)
    \/ \E f \in Funcs, secs \in 1..MaxTtl, ms \in 1..MaxSize :
          Decorate(f, secs, ms)
    \/ \E f \in Funcs : CachedCall(1, f)
    \/ Insert(1)
    \/ CacheTick

(***************************************************************************)
(* AsyncLRUCache._make_key                                                 *)
(*                                                                         *)
(* An argument value is a Python object of one of six kinds carrying a     *)
(* small integer n: the int n, the str "n", the tuple (n,), the list [n],  *)
(* an object whose str() is "n" (a pathlib.Path, say), and the dict        *)
(* {(n,): n}, whose tuple key json.dumps rejects with TypeError.  A call   *)
(* is the name of the decorated function, its positional arguments and its *)
(* keyword arguments in the order they were written.  A key is kept as the *)
(* string md5 is applied to, in structured form.                           *)
(***************************************************************************)
MaxArgs == 1
MaxKwargs == 2
MaxPayload == 2
MaxCalls == 2

FuncNames == {"f", "g"}
KwNames == {"a", "b", "cls"}
Ints == [kind : {"int"}, v : 1..MaxPayload]
ArgValues ==
    Ints \cup [kind : {"str", "tuple", "list", "obj", "keyed"}, v : {1}]
KwItems == [name : KwNames, value : Ints]

SeqsUpTo(S, n) == UNION {[1..m -> S] : m \in 0..n}

\* what the wrapper of cached() can pass: keyword names are distinct
Calls ==
    {c \in [func : FuncNames, args : SeqsUpTo(ArgValues, MaxArgs),
            kwargs : SeqsUpTo(KwItems, MaxKwargs)] :
        \A i, j \in 1..Len(c.kwargs) :
            c.kwargs[i].name = c.kwargs[j].name => i = j}

\* {k: v for k, v in kwargs.items() if k not in ("self", "cls")}
Filtered(kwargs) ==
    SelectSeq(kwargs, LAMBDA item : item.name \notin {"self", "cls"})

\* json.dumps of one value: a tuple is written as an array, like a list, and
\* default=str writes an object json does not know as the string str(o)
Json(val) ==
    CASE val.kind = "int" -> [kind |-> "number", v |-> val.v]
      [] val.kind \in {"str", "obj"} -> [kind |-> "string", v |-> val.v]
      [] val.kind \in {"tuple", "list"} -> [kind |-> "array", v |-> val.v]

\* json.dumps raises TypeError (a dict key that is a tuple)
Serialisable(val) == val.kind # "keyed"

\* str() of a tuple or dict writes the repr of each item, which tells the six
\* kinds apart
Repr(val) == [kind |-> val.kind, v |-> val.v]

\* sort_keys=True: the items in the order of their names
SortKeys(kwargs) ==
    SelectSeq(kwargs, LAMBDA item : item.name = "a")
    \o SelectSeq(kwargs, LAMBDA item : item.name = "b")
    \o SelectSeq(kwargs, LAMBDA item : item.name = "cls")

\* key_str of _make_key(func_name, args, kwargs)
KeyStr(c) ==
    LET filtered_kwargs == Filtered(c.kwargs)
        sorted == SortKeys(filtered_kwargs)
        dumps ==
            /\ \A i \in 1..Len(c.args) : Serialisable(c.args[i])
            /\ \A i \in 1..Len(filtered_kwargs) :
                  Serialisable(filtered_kwargs[i].value)
    IN IF dumps
       THEN [form |-> "json", func |-> c.func,
             args |-> [i \in 1..Len(c.args) |-> Json(c.args[i])],
             kwargs |-> [i \in 1..Len(sorted) |->
                           [name |-> sorted[i].name,
                            value |-> Json(sorted[i].value)]]]
       ELSE [form |-> "str", func |-> c.func,
             args |-> [i \in 1..Len(c.args) |-> Repr(c.args[i])],
             kwargs |-> [i \in 1..Len(filtered_kwargs) |->
                           [name |-> filtered_kwargs[i].name,
                            value |-> Repr(filtered_kwargs[i].value)]]]

\* the wrapper of cached() derives the key of a call (line 194)
MakeKey(c) ==
    /\ Len(calls) < MaxCalls
    /\ calls' = Append(calls, c)
    /\ keys' = Append(keys, KeyStr(c))
    /\ UNCHANGED <<now, rateVars, cacheVars, retryVars, ctxVars, globalVars>>

KeyNext == \E c \in Calls : MakeKey(c)

(***************************************************************************)
(* Specifications: one per component, the other components at rest         *)
(***************************************************************************)
RateIdle ==
    /\ max_requests = 1
    /\ window = 1
    /\ requests = <<>>
    /\ lockHolder = NoTask
    /\ lockWaiters = <<>>
    /\ rpc = [t \in Tasks |-> "idle"]
    /\ wakeAt = [t \in Tasks |-> None]
    /\ calledAt = [t \in Tasks |-> None]
    /\ lastAdmitted = NoTask
    /\ lastCancelled = NoTask
    /\ blockedBehind = [t \in Tasks |-> None]
    /\ admitLog = [i \in Times |-> 0]
    /\ usage = NoUsage

CacheIdle ==
    /\ cacheLockHolder = NoTask
    /\ max_size = 1
    /\ ttl = 1
    /\ cache = <<>>
    /\ hits = 0
    /\ misses = 0
    /\ cpc = [t \in Callers |-> "idle"]
    /\ ckey = [t \in Callers |-> None]
    /\ cval = [t \in Callers |-> None]
    /\ fnCalls = 0
    /\ recency = <<>>
    /\ prev = [t \in Callers |-> NoPrev]
    /\ ev = NoEvent

RetryIdle ==
    /\ max_attempts = 1
    /\ backoff_factor = 1
    /\ initial_delay = 1
    /\ max_delay = 1
    /\ wpc = "idle"
    /\ attempt = 0
    /\ last_exception = None
    /\ delay = None
    /\ outcomes = <<>>
    /\ sleeps = <<>>
    /\ result = None
    /\ raised = NoError

\* _global_cache = None, _global_rate_limiter = None, nothing decorated
GlobalIdle ==
    /\ global_cache = 0
    /\ global_rate_limiter = 0
    /\ decl = [k \in Keys |-> None]
    /\ first = [cache |-> <<>>, limiter |-> <<>>]
    /\ got = NoCall
    /\ calls = <<>>
    /\ keys = <<>>

InitRate ==
    now = 0 /\ RateInit /\ CacheIdle /\ RetryIdle /\ CtxInit /\ GlobalIdle
InitCache ==
    now = 0 /\ CacheInit /\ RateIdle /\ RetryIdle /\ CtxInit /\ GlobalIdle
InitRetry ==
    now = 0 /\ RetryInit /\ CtxInit /\ RateIdle /\ CacheIdle /\ GlobalIdle

SpecRate == InitRate /\ [][RateNext]_vars

\* The event loop runs every task that is ready, and time passes.
FairSpecRate ==
    /\ SpecRate
    /\ WF_vars(RateTick)
    /\ \A t \in Tasks : WF_vars(Wake(t)) /\ WF_vars(LockGranted(t))

\* The limiter with get_current_usage() and reset() called at any moment.
SpecRateOps == InitRate /\ [][RateOpsNext]_vars

FairSpecRateOps ==
    /\ SpecRateOps
    /\ WF_vars(RateTick)
    /\ \A t \in Tasks : WF_vars(Wake(t)) /\ WF_vars(LockGranted(t))

SpecCache == InitCache /\ [][CacheNext]_vars

\* Every invocation of the supplied function comes to an end: it returns,
\* raises or is cancelled.
FairSpecCache ==
    /\ SpecCache
    /\ \A t \in Callers :
          WF_vars(Insert(t) \/ FuncRaises(t) \/ CancelCompute(t))

SpecRetry == InitRetry /\ [][RetryNext]_vars

\* Several guarded calls in turn, through the wrapper and through one or
\* more RetryContext objects.
SpecRetryCalls == InitRetry /\ [][RetryCallsNext]_vars

\* The operation and the sleeps of the wrapped call terminate.
FairSpecRetry ==
    /\ SpecRetry
    /\ WF_vars(\E o \in Outcomes : Attempt(o))
    /\ WF_vars(SleepDone)

\* The process before the first get_cache() or get_rate_limiter(): no
\* instance, hence no configuration yet.
InitGlobal ==
    /\ now = 0
    /\ GlobalIdle
    /\ RetryIdle
    /\ CtxInit
    /\ max_size = None
    /\ ttl = None
    /\ cache = <<>>
    /\ hits = 0
    /\ misses = 0
    /\ cacheLockHolder = NoTask
    /\ cpc = [t \in Callers |-> "idle"]
    /\ ckey = [t \in Callers |-> None]
    /\ cval = [t \in Callers |-> None]
    /\ fnCalls = 0
    /\ recency = <<>>
    /\ prev = [t \in Callers |-> NoPrev]
    /\ ev = NoEvent
    /\ max_requests = None
    /\ window = None
    /\ requests = <<>>
    /\ lockHolder = NoTask
    /\ lockWaiters = <<>>
    /\ rpc = [t \in Tasks |-> "idle"]
    /\ wakeAt = [t \in Tasks |-> None]
    /\ calledAt = [t \in Tasks |-> None]
    /\ lastAdmitted = NoTask
    /\ lastCancelled = NoTask
    /\ blockedBehind = [t \in Tasks |-> None]
    /\ admitLog = [i \in Times |-> 0]
    /\ usage = NoUsage

SpecGlobal == InitGlobal /\ [][GlobalNext]_vars

\* The decorated functions with their cache_invalidate() as well.
GlobalInvalidateNext ==
    \/ GlobalNext
    \/ \E f \in Funcs : CacheInvalidate(f)

SpecGlobalInvalidate == InitGlobal /\ [][GlobalInvalidateNext]_vars

\* Keys derived for calls of decorated functions, in any order.
InitKey ==
    now = 0 /\ CacheIdle /\ RateIdle /\ RetryIdle /\ CtxInit /\ GlobalIdle

SpecKey == InitKey /\ [][KeyNext]_vars

(***************************************************************************)
(* Properties of the RateLimiter                                           *)
(***************************************************************************)
RECURSIVE SumLog(_, _)
SumLog(lo, hi) == IF lo > hi THEN 0 ELSE admitLog[lo] + SumLog(lo + 1, hi)

\* timestamps recorded in the closed interval [s, s + window]
WindowCount(s) == SumLog(s, Min(s + window, MaxTime))

\* C1: whatever the sequence and interleaving of acquire() calls, no time
\* interval of length window_duration contains more than max_requests of the
\* timestamps that acquire() has recorded.
C1_NoWindowOverLimit ==
    \A s \in Times : WindowCount(s) <= max_requests

\* C1 witness: a window is full, a timestamp has been pruned and replaced by
\* a later admission, and a caller is held back.
C1_Witness ==
    /\ \E s \in Times : WindowCount(s) = max_requests
    /\ SumLog(0, MaxTime) > Len(requests)
    /\ requests # <<>>
    /\ \E t \in Tasks : rpc[t] = "sleeping"

Suspended(t) == rpc[t] \in {"sleeping", "recursing"}
OnlyWaiter(t) == \A u \in Tasks \ {t} : rpc[u] = "idle"

\* the call of task t has just recorded the timestamp `now` and returned
Admitted(t) ==
    /\ rpc[t] = "idle"
    /\ lastAdmitted = t
    /\ requests # <<>>
    /\ requests[Len(requests)] = now

\* the call of task t has just been cancelled by its caller
Cancelled(t) == rpc[t] = "idle" /\ lastCancelled = t

\* C2: a caller that finds the window full and is the only waiter sleeps,
\* re-evaluates after waking and, unless its caller cancels it, is admitted
\* once window_duration has passed since the oldest timestamp it was blocked
\* behind; it does not stay suspended forever.  (The deadline is read with
\* scheduling latency allowed: admission when the sleep is over or later.)
C2_OnlyWaiterAdmitted ==
    \A t \in Tasks :
        (/\ rpc[t] = "sleeping"
         /\ OnlyWaiter(t)
         /\ lastCancelled = NoTask
         /\ wakeAt[t] = blockedBehind[t] + window
         /\ wakeAt[t] <= MaxTime)
        ~> (Admitted(t) \/ Cancelled(t))

\* N + 1 calls were issued at this instant on an empty limiter: N were
\* admitted with timestamp `now` and c is the one left, asleep until
\* now + window.
BurstAt(c) ==
    /\ now + window <= MaxTime
    /\ \A i \in Times \ {now} : admitLog[i] = 0
    /\ admitLog[now] = max_requests
    /\ Len(requests) = max_requests
    /\ calledAt[c] = now
    /\ wakeAt[c] = now + window
    /\ rpc[c] = "sleeping"
    /\ OnlyWaiter(c)
    /\ lastCancelled = NoTask

\* C3: with max_requests = N and window W on an empty limiter, of N + 1
\* acquire() calls issued at the same instant t exactly N return at once with
\* timestamp t; the remaining one is suspended until t + W and, unless its
\* caller cancels it, is admitted then.
C3_BurstLastAdmittedAtWindowEnd ==
    /\ [](\A c \in Tasks :
            (/\ \A i \in Times \ {now} : admitLog[i] = 0
             /\ calledAt[c] = now
             /\ Suspended(c))
            => /\ admitLog[now] = max_requests
               /\ rpc[c] = "sleeping"
               /\ wakeAt[c] = now + window)
    /\ \A c \in Tasks :
          BurstAt(c) ~> (Admitted(c) \/ Cancelled(c))

(***************************************************************************)
(* Properties of the AsyncLRUCache                                         *)
(***************************************************************************)
IsLookup == ev.op \in {"hit", "miss"}

\* C4: two sequential get_or_set(K, fn) calls, the second starting after the
\* first completed and less than ttl after its insertion, with no invalidate,
\* eviction or other insertion of K in between, invoke fn once in total (the
\* second call invokes nothing) and return the same value.
C4_SecondCallWithinTtlHits ==
    (/\ IsLookup
     /\ ev.prior # NoPrev
     /\ ev.prior.key = ev.key
     /\ now < ev.prior.at + ttl)
    => /\ ev.op = "hit"
       /\ ev.val = ev.prior.val
       /\ fnCalls = ev.fnBefore
       /\ cpc[ev.task] = "idle"

\* C4 witness: the second call hit at a later instant than the insertion,
\* while another caller's computation was in flight.
C4_Witness ==
    /\ ev.op = "hit"
    /\ ev.prior # NoPrev
    /\ ev.prior.key = ev.key
    /\ ev.prior.at < now
    /\ ev.val = ev.prior.val
    /\ \E u \in Callers : cpc[u] = "computing"

\* C5: an entry inserted at t0 with ttl T is a hit for a lookup of its key at
\* t < t0 + T and a miss, with the function invoked again, for a lookup at
\* t >= t0 + T.
C5_TtlBoundary ==
    (IsLookup /\ ev.seen # None)
    => /\ (ev.op = "hit") <=> (now < ev.seen + ttl)
       /\ ev.op = "hit" => fnCalls = ev.fnBefore
       /\ ev.op = "miss" =>
            /\ fnCalls = ev.fnBefore + 1
            /\ cpc[ev.task] = "computing"
            /\ IndexOf(cache, ev.key) = 0

\* C5 witness: a lookup exactly ttl after the insertion found the entry and
\* treated it as a miss.
C5_Witness ==
    /\ ev.op = "miss"
    /\ ev.seen # None
    /\ now = ev.seen + ttl
    /\ ttl > 1

IsEviction == ev.op = "insert" /\ ev.evicted # None

PositionIn(r, k) == CHOOSE i \in 1..Len(r) : r[i] = k

\* C6: when an insertion takes the store over its capacity, exactly capacity
\* entries are left and the key removed is the least recently touched one
\* (oldest insertion or hit).
C6_EvictsLeastRecentlyTouched ==
    IsEviction
    => /\ Len(cache) = max_size
       /\ ev.evicted = Head(ev.order)

\* C7: a hit refreshes the recency of the entry read: an entry A that was
\* touched after the insertion of a later entry B is not evicted while B is
\* kept.
C7_HitRefreshesRecency ==
    IsEviction
    => ~ \E i \in 1..Len(cache) :
            /\ cache[i].time > ev.evictedTime
            /\ PositionIn(ev.order, cache[i].key)
                 < PositionIn(ev.order, ev.evicted)

\* C8: under any interleaving of get_or_set calls and invalidations, the
\* number of stored entries never exceeds max_size once an operation is
\* complete.
C8_SizeWithinCapacity ==
    Len(cache) <= max_size

\* C8 witness: an insertion evicted an entry of a full store while another
\* caller's computation was still in flight.
C8_Witness ==
    /\ IsEviction
    /\ Len(cache) = max_size
    /\ max_size > 1
    /\ \E u \in Callers : cpc[u] = "computing"

(***************************************************************************)
(* Properties of async_retry                                               *)
(***************************************************************************)
RECURSIVE SumSeq(_)
SumSeq(q) == IF q = <<>> THEN 0 ELSE Head(q) + SumSeq(Tail(q))

\* sum over i = 1..k of min(initial_delay * backoff_factor^(i-1), max_delay)
RECURSIVE ExpectedWait(_)
ExpectedWait(k) ==
    IF k = 0 THEN 0
    ELSE ExpectedWait(k - 1)
         + Min(initial_delay * Pow(backoff_factor, k - 1), max_delay)

AllRetryable(q) == \A i \in 1..Len(q) : q[i] = "retryable"
FailsThenSucceeds(q) ==
    /\ q # <<>>
    /\ q[Len(q)] = "ok"
    /\ AllRetryable(SubSeq(q, 1, Len(q) - 1))

\* C9: an operation that fails k times with a retryable error and then
\* succeeds, with max_attempts > k, is invoked k + 1 times (the wrapper does
\* not give up before), the wrapper returns the operation's result, and the
\* time slept is the sum of min(initial_delay * backoff_factor^(i-1),
\* max_delay) for i = 1..k.
C9_RetryThenSuccess ==
    /\ (AllRetryable(outcomes) /\ Len(outcomes) < max_attempts)
         => wpc \in {"idle", "attempting", "sleeping"}
    /\ FailsThenSucceeds(outcomes)
         => /\ wpc = "returned"
            /\ result = Len(outcomes)
            /\ raised = NoError
            /\ Len(sleeps) = Len(outcomes) - 1
            /\ SumSeq(sleeps) = ExpectedWait(Len(outcomes) - 1)

\* C9 witness: success at the third invocation, after a first delay of
\* initial_delay and a second one cut to max_delay.
C9_Witness ==
    /\ wpc = "returned"
    /\ Len(outcomes) = 3
    /\ result = 3
    /\ sleeps[1] = initial_delay
    /\ sleeps[2] = max_delay
    /\ initial_delay * backoff_factor > max_delay
    /\ initial_delay < max_delay

\* C10: with max_attempts = N >= 1 and an operation that always fails with a
\* retryable error, the wrapper invokes it exactly N times, sleeps N - 1
\* times (not after the last attempt) and raises the error of the last
\* attempt itself.
C10_ExhaustionRaisesLastError ==
    /\ Len(outcomes) <= max_attempts
    /\ (max_attempts >= 1 /\ AllRetryable(outcomes)
        /\ Len(outcomes) = max_attempts)
         => /\ wpc = "raised"
            /\ raised = [kind |-> "retryable", id |-> max_attempts]
            /\ Len(sleeps) = max_attempts - 1
            /\ result = None

\* C10 witness: three attempts, two sleeps, the third error raised.
C10_Witness ==
    /\ wpc = "raised"
    /\ max_attempts = 3
    /\ AllRetryable(outcomes)
    /\ Len(outcomes) = 3
    /\ Len(sleeps) = 2
    /\ raised.id = 3

\* C11: when the operation fails, at whatever attempt, with an error outside
\* the retryable classes, the wrapper raises that very error at once: the
\* operation is not invoked again and nothing is slept after it (an error at
\* the first attempt means exactly one attempt).
C11_NonRetryablePropagates ==
    \A i \in 1..Len(outcomes) :
        outcomes[i] = "fatal"
        => /\ i = Len(outcomes)
           /\ wpc = "raised"
           /\ raised = [kind |-> "fatal", id |-> i]
           /\ Len(sleeps) = i - 1
           /\ delay = None
           /\ result = None

\* C11 witness: an error of another class at the second attempt, with
\* attempts left, was raised after the single sleep that preceded it.
C11_Witness ==
    /\ wpc = "raised"
    /\ raised = [kind |-> "fatal", id |-> 2]
    /\ outcomes = <<"retryable", "fatal">>
    /\ max_attempts = 3
    /\ Len(sleeps) = 1

\* C12: when the operation succeeds, at whatever attempt, the wrapper returns
\* that result at once: the operation is not invoked again and no sleep
\* follows the success.
C12_SuccessReturnsAtOnce ==
    \A i \in 1..Len(outcomes) :
        outcomes[i] = "ok"
        => /\ i = Len(outcomes)
           /\ wpc = "returned"
           /\ result = i
           /\ raised = NoError
           /\ Len(sleeps) = i - 1
           /\ delay = None

\* C12 witness: success at the second of three permitted attempts.
C12_Witness ==
    /\ wpc = "returned"
    /\ outcomes = <<"retryable", "ok">>
    /\ result = 2
    /\ max_attempts = 3
    /\ Len(sleeps) = 1

\* the a-th delay of a call: min(initial_delay * backoff_factor^(a-1), max_delay)
DelaysAsSpecified(q) ==
    /\ \A a \in 1..Len(q) :
          /\ q[a] = Min(initial_delay * Pow(backoff_factor, a - 1), max_delay)
          /\ q[a] <= max_delay
    /\ (q # <<>> /\ initial_delay <= max_delay) => q[1] = initial_delay

\* C13: in the wrapper and in RetryContext alike, the delay slept after
\* failed attempt number a (1-based) is min(initial_delay *
\* backoff_factor^(a-1), max_delay): the first delay is initial_delay (where
\* that is within max_delay) and no delay exceeds max_delay.
C13_DelayFormula ==
    /\ DelaysAsSpecified(sleeps)
    /\ DelaysAsSpecified(ctxSleeps)

\* C13 witness: both forms have slept twice, first initial_delay, then a
\* delay cut to max_delay.
C13_Witness ==
    /\ Len(sleeps) = 2
    /\ Len(ctxSleeps) = 2
    /\ ctxSleeps[1] = initial_delay
    /\ ctxSleeps[2] = max_delay
    /\ initial_delay * backoff_factor > max_delay
    /\ initial_delay < max_delay

WrapperDone == wpc \in {"returned", "raised"}
CtxDone == xpc \in {"returned", "raised"}

\* C14: for every configuration and every sequence of outcomes of the
\* operation, the wrapper and the loop driven through a fresh RetryContext
\* make the same number of attempts, sleep the same delays and end with the
\* same result or the same error.
C14_WrapperMatchesContext ==
    (WrapperDone /\ CtxDone)
    => /\ outcomes = ctxOutcomes
       /\ sleeps = ctxSleeps
       /\ wpc = xpc
       /\ result = ctxResult
       /\ raised = ctxRaised

(***************************************************************************)
(* Properties of the steps of the AsyncLRUCache                            *)
(***************************************************************************)
\* the entries of c stored under keys other than k, in their order
OthersOf(c, k) == SelectSeq(c, LAMBDA e : e.key # k)

\* caller t passes from the lookup to `await func(...)`
MissStep(t) == cpc[t] = "idle" /\ cpc'[t] = "computing"

\* the func of caller t raises, or caller t is cancelled while awaiting it
AbortStep(t, how) ==
    /\ cpc[t] = "computing"
    /\ cpc'[t] = "idle"
    /\ ev'.op = how
    /\ ev'.task = t

\* C15: when func raises on a miss, that error reaches the caller, no entry
\* is inserted for the key and every other entry is unchanged: the call
\* changes the miss counter, and removes the expired entry of its own key if
\* it found one, and nothing else.
C15_FuncErrorLeavesStore ==
    [][\A t \in Callers :
          /\ MissStep(t)
             => /\ cache' = OthersOf(cache, ckey'[t])
                /\ misses' = misses + 1
                /\ hits' = hits
          /\ AbortStep(t, "raise")
             => /\ ev'.val = cval[t]
                /\ ev'.key = ckey[t]
                /\ cache' = cache
                /\ misses' = misses
                /\ hits' = hits]_vars

\* C15 witness: func has raised for a key that is not stored, while another
\* entry is stored and another caller's computation is in flight.
C15_Witness ==
    /\ ev.op = "raise"
    /\ ev.val # None
    /\ cache # <<>>
    /\ IndexOf(cache, ev.key) = 0
    /\ misses >= 2
    /\ \E u \in Callers : cpc[u] = "computing"

\* C16: invalidate(key) removes the entry of that key, if there is one, and
\* leaves the other entries as they are; invalidate(None) leaves the store
\* empty; neither changes the hit and miss counters or the configuration.
C16_InvalidateFrame ==
    [][ev'.op = "invalidate"
       => /\ cache' = IF ev'.key = None THEN <<>>
                      ELSE OthersOf(cache, ev'.key)
          /\ (ev'.key # None /\ IndexOf(cache, ev'.key) = 0) => cache' = cache
          /\ (ev'.key # None /\ IndexOf(cache, ev'.key) # 0)
               => Len(cache') = Len(cache) - 1
          /\ hits' = hits
          /\ misses' = misses
          /\ max_size' = max_size
          /\ ttl' = ttl]_vars

\* C16 witness: invalidate(key) has removed the entry of a stored key and
\* left another entry, with hits and misses counted before.
C16_Witness ==
    /\ ev.op = "invalidate"
    /\ ev.key # None
    /\ ev.seen # None
    /\ Len(cache) = 1
    /\ hits > 0
    /\ misses > 1

\* C18: a caller of get_or_set that is cancelled while it awaits func has
\* stored nothing under its key (not even before func was awaited), leaves
\* the entries as they were, and leaves a store within max_size whose lock
\* is free.
C18_CancelLeavesStore ==
    /\ [](ev.op = "cancel"
           => /\ Len(cache) <= max_size
              /\ cacheLockHolder = NoTask
              /\ cpc[ev.task] = "idle")
    /\ [][\A t \in Callers :
             /\ MissStep(t) => IndexOf(cache', ckey'[t]) = 0
             /\ AbortStep(t, "cancel")
                => /\ cache' = cache
                   /\ cacheLockHolder' = NoTask]_vars

\* C18 witness: a caller was cancelled while the store was full and another
\* caller's computation was in flight.
C18_Witness ==
    /\ ev.op = "cancel"
    /\ Len(cache) = max_size
    /\ max_size > 1
    /\ IndexOf(cache, ev.key) = 0
    /\ \E u \in Callers : cpc[u] = "computing"

(***************************************************************************)
(* Cancellation inside RateLimiter.acquire()                               *)
(***************************************************************************)
InQueue(t) == \E i \in 1..Len(lockWaiters) : lockWaiters[i] = t

\* C17: a caller cancelled while suspended inside acquire(), waiting for the
\* lock or sleeping, has recorded no timestamp and leaves the timestamp
\* sequence as it was; the lock is not left held by, or queued for, a call
\* that is over.
C17_CancelledAcquireLeavesNoTrace ==
    /\ [](\A t \in Tasks :
            /\ lockHolder = t => Suspended(t)
            /\ rpc[t] = "idle" => ~InQueue(t))
    /\ [][\A t \in Tasks :
             Cancel(t)
             => /\ requests' = requests
                /\ admitLog' = admitLog
                /\ lastAdmitted' = lastAdmitted
                /\ lockHolder' # t
                /\ ~InQueue(t)']_vars

\* C17 witness: the caller that slept holding the lock was cancelled; the
\* timestamps are still there, the lock is free and the caller that was
\* queued behind it can take it.
C17_Witness ==
    \E t, u \in Tasks :
        /\ Cancelled(t)
        /\ rpc[u] = "lockwait"
        /\ lockHolder = NoTask
        /\ Head(lockWaiters) = u
        /\ Len(requests) = max_requests

(***************************************************************************)
(* Properties of the module globals                                        *)
(***************************************************************************)
\* C19: get_cache() and get_rate_limiter() each build their instance once,
\* at the first call; every later call, whatever its arguments, returns
\* that instance, which still has the configuration of the first call.
C19_SingletonsBuiltOnce ==
    /\ global_cache <= 1
    /\ global_rate_limiter <= 1
    /\ first.cache # <<>>
         => global_cache = 1 /\ <<max_size, ttl>> = first.cache
    /\ first.limiter # <<>>
         => /\ global_rate_limiter = 1
            /\ <<max_requests, window>> = first.limiter
    /\ got.fn = "get_cache" => got.inst = 1 /\ got.conf = first.cache
    /\ got.fn = "get_rate_limiter"
         => got.inst = 1 /\ got.conf = first.limiter

\* C19 witness: a later get_cache() with other arguments than the first has
\* returned the instance, which holds an entry, and the rate limiter has
\* been built as well.
C19_Witness ==
    /\ got.fn = "get_cache"
    /\ got.args # first.cache
    /\ got.inst = 1
    /\ cache # <<>>
    /\ global_rate_limiter = 1
    /\ <<max_requests, window>> = <<MaxReq, MaxWindow>>

\* C20: a result cached through a function decorated with
\* cached(ttl_seconds=T) is a hit for a repeated call earlier than T after
\* its insertion and is recomputed at T or later, whatever cached(...)
\* decorators or get_cache() calls came before.
C20_CachedTtlIsDeclared ==
    (IsLookup /\ ev.seen # None /\ decl[ev.key] # None)
    => ((ev.op = "hit") <=> (now < ev.seen + decl[ev.key]))

(***************************************************************************)
(* Properties of get_current_usage(), reset() and the limiter's lock       *)
(***************************************************************************)
\* the timestamps of q that are not older than the window at time t
WithinWindow(q, t) == SelectSeq(q, LAMBDA ts : t - ts <= window)

\* C21: get_current_usage() does not suspend (no caller's position, lock or
\* clock changes in its step) and records no timestamp; it removes the
\* timestamps older than the window, those acquire() would prune at that
\* instant, and no other; it reports as current_requests the number of
\* timestamps retained, which is at most max_requests.
C21_UsagePrunesAndReports ==
    [][GetCurrentUsage
       => /\ requests' = WithinWindow(requests, now)
          /\ requests' = Prune(requests, now)
          /\ admitLog' = admitLog
          /\ lastAdmitted' = lastAdmitted
          /\ <<now, rpc, lockHolder, lockWaiters, wakeAt>>'
               = <<now, rpc, lockHolder, lockWaiters, wakeAt>>
          /\ usage'.current_requests = Len(requests')
          /\ usage'.current_requests <= max_requests
          /\ usage'.max_requests = max_requests
          /\ usage'.window_seconds = window]_vars

\* C21 witness: get_current_usage() removed a timestamp and kept another
\* while a caller slept.
C21_Witness ==
    /\ usage.op = "usage"
    /\ usage.removed >= 1
    /\ usage.current_requests >= 1
    /\ Len(requests) = usage.current_requests
    /\ \E t \in Tasks : rpc[t] = "sleeping"

\* C22: reset() empties the timestamp sequence and leaves max_requests and
\* window as they are; an acquire() that starts on the limiter so reset,
\* with no other call in progress, returns at once; and a waiter that was
\* suspended when reset() ran is, unless cancelled, admitted after it wakes.
C22_ResetThenAdmitted ==
    /\ [][Reset
          => /\ requests' = <<>>
             /\ max_requests' = max_requests
             /\ window' = window]_vars
    /\ [][\A t \in Tasks :
             (/\ Acquire(t)
              /\ usage.op = "reset"
              /\ requests = <<>>
              /\ OnlyWaiter(t))
             => /\ rpc'[t] = "idle"
                /\ requests' = <<now>>]_vars
    /\ \A t \in Tasks :
          (/\ rpc[t] = "sleeping"
           /\ usage.op = "reset"
           /\ requests = <<>>
           /\ OnlyWaiter(t)
           /\ lastCancelled = NoTask
           /\ wakeAt[t] <= MaxTime)
          ~> (Admitted(t) \/ Cancelled(t))

\* C27: when an acquire() call completes, every retained timestamp ts has
\* now - ts <= window and at most max_requests timestamps are retained.
C27_RetainedWithinWindowAtReturn ==
    \A t \in Tasks :
        Admitted(t)
        => /\ \A i \in 1..Len(requests) : now - requests[i] <= window
           /\ Len(requests) <= max_requests

\* C27 witness: a call has completed with the window full, after an older
\* timestamp was pruned.
C27_Witness ==
    /\ \E t \in Tasks : Admitted(t)
    /\ Len(requests) = max_requests
    /\ max_requests > 1
    /\ SumLog(0, MaxTime) > Len(requests)
    /\ requests[1] < now

\* C28: the timestamp sequence of a rate limiter (like the entry map of a
\* cache) is changed only by a caller that holds the instance's lock: no
\* step changes it while another caller holds the lock, in particular while
\* an acquire() caller sleeps holding it.
C28_MutationOnlyUnderLock ==
    [][requests' # requests => lockHolder = NoTask]_vars

(***************************************************************************)
(* Properties of get_or_set: hits, the lock and concurrent misses          *)
(***************************************************************************)
\* the entry stored under key k, NoPrev if there is none
Stored(c, k) ==
    IF IndexOf(c, k) # 0
    THEN [key |-> k, val |-> c[IndexOf(c, k)].value,
          at |-> c[IndexOf(c, k)].time]
    ELSE NoPrev

\* C23: a get_or_set call that finds an unexpired entry under its key
\* returns the stored value and does not invoke the supplied function (so
\* nothing is attempted or retried on its behalf).
C23_HitReturnsStoredWithoutCall ==
    (IsLookup /\ ev.seen # None /\ now - ev.seen < ttl)
    => /\ ev.op = "hit"
       /\ fnCalls = ev.fnBefore
       /\ cpc[ev.task] = "idle"
       /\ Stored(cache, ev.key) = [key |-> ev.key, val |-> ev.val,
                                   at |-> ev.seen]

\* C23 witness: a call has found an entry stored at an earlier instant, not
\* yet expired.
C23_Witness ==
    /\ ev.op = "hit"
    /\ ev.seen # None
    /\ ev.seen < now
    /\ ev.val # None
    /\ fnCalls = 1

\* C25: the cache lock is not held while the supplied function runs: while
\* one caller is computing, another caller's get_or_set can take the lock
\* and run its locked blocks to the end.
C25_LockFreeWhileComputing ==
    \A t \in Callers :
        cpc[t] = "computing"
        => /\ cacheLockHolder = NoTask
           /\ \A u \in Callers \ {t} :
                 /\ (cpc[u] = "idle" /\ hits + misses < MaxLookups)
                    => \A k \in Keys : ENABLED Lookup(u, k)
                 /\ cpc[u] = "computing" => ENABLED Insert(u)

\* C25 witness: while one caller is still computing, another caller that
\* missed after it has already stored its own result.
C25_Witness ==
    \E t \in Callers :
        /\ cpc[t] = "computing"
        /\ ev.op = "insert"
        /\ ev.task # t
        /\ ev.val > cval[t]

\* the other caller's insertion that the insertion of u is about to follow,
\* both callers having missed before either inserted
MissedTogether(t, u) ==
    /\ t # u
    /\ cpc[u] = "computing"
    /\ cpc[t] = "idle"
    /\ prev[t].key = ckey[u]
    /\ (cval[u] < prev[t].val \/ prev[t].at = now)

\* C26: two get_or_set calls for the same key that both miss before either
\* inserts each invoke the function and return their own result, and after
\* the second insertion the stored entry holds the value and the timestamp
\* of that second insertion.
C26_ConcurrentMissesLastInsertWins ==
    /\ [](\A t, u \in Callers :
            (t # u /\ cpc[t] = "computing" /\ cpc[u] = "computing"
             /\ ckey[t] = ckey[u])
            => (cval[t] # cval[u] /\ fnCalls >= 2))
    /\ [][\A t, u \in Callers :
            (MissedTogether(t, u) /\ Insert(u))
            => /\ prev[t].val # cval[u]
               /\ ev'.val = cval[u]
               /\ Stored(cache', ckey[u])
                    = [key |-> ckey[u], val |-> cval[u], at |-> now]
               /\ \A i \in 1..Len(cache') :
                     cache'[i].key = ckey[u] => cache'[i].value = cval[u]]_vars

\* C26 witness: two misses and no hit so far, and the second insertion has
\* replaced the entry stored by the first.
C26_Witness ==
    /\ ev.op = "insert"
    /\ ev.seen # None
    /\ hits = 0
    /\ misses = 2
    /\ fnCalls = 2
    /\ Stored(cache, ev.key) = [key |-> ev.key, val |-> ev.val, at |-> now]
    /\ \A t \in Callers : cpc[t] = "idle"

(***************************************************************************)
(* Properties of key derivation                                            *)
(***************************************************************************)
\* the keyword arguments of a call as a mapping, whatever their order
KwDict(c) == {c.kwargs[i] : i \in 1..Len(c.kwargs)}

\* the same operation with equal positional and equal keyword arguments
SameCall(c, d) ==
    c.func = d.func /\ c.args = d.args /\ KwDict(c) = KwDict(d)

\* C24: the key is determined by (func_name, args, kwargs): two identical
\* calls get the same key, and two calls that differ in the operation name,
\* in a positional argument or in a keyword argument get different strings
\* to hash.
C24_KeyIdentifiesCall ==
    \A i, j \in 1..Len(calls) :
        SameCall(calls[i], calls[j]) <=> keys[i] = keys[j]

(***************************************************************************)
(* The state machine of one guarded call, and RetryContext                 *)
(***************************************************************************)
\* the state of the wrapped call in the terms of the state machine
RetryState ==
    CASE wpc = "idle" -> "Idle"
      [] wpc = "attempting" -> "Attempting"
      [] wpc = "sleeping" -> "RetryableWait"
      [] wpc = "returned" -> "Succeeded"
      [] wpc = "raised" /\ raised.kind = "retryable" -> "Exhausted"
      [] wpc = "raised" /\ raised.kind # "retryable" -> "NonRetryableFail"

RetryTransitions ==
    {<<"Idle", "Attempting">>,
     <<"Attempting", "Succeeded">>,
     <<"Attempting", "RetryableWait">>,
     <<"RetryableWait", "Attempting">>,
     <<"Attempting", "Exhausted">>,
     <<"Attempting", "NonRetryableFail">>}

RetryTerminal ==
    RetryState \in {"Succeeded", "Exhausted", "NonRetryableFail"}

\* C29: with max_attempts >= 1 a guarded call moves only along Idle ->
\* Attempting, Attempting -> Succeeded, Attempting -> Retryable-Wait ->
\* Attempting, Attempting -> Exhausted and Attempting -> NonRetryable-Fail;
\* nothing changes once it is in Succeeded, Exhausted or NonRetryable-Fail;
\* it is in Attempting at most max_attempts times; and, the operation and
\* the sleeps terminating, a started call reaches one of the three.
C29_RetryStateMachine ==
    /\ [][(max_attempts >= 1 /\ RetryState' # RetryState)
          => <<RetryState, RetryState'>> \in RetryTransitions]_vars
    /\ [][(max_attempts >= 1 /\ RetryTerminal)
          => UNCHANGED retryVars]_vars
    /\ [](max_attempts >= 1
          => /\ Len(outcomes) + (IF wpc = "attempting" THEN 1 ELSE 0)
                  <= max_attempts
             /\ RetryState = "Exhausted" => Len(outcomes) = max_attempts)
    /\ (max_attempts >= 1 /\ RetryState = "Attempting") ~> RetryTerminal

\* C29 witness: a call is Exhausted after three attempts and two waits.
C29_Witness ==
    /\ max_attempts = 3
    /\ RetryState = "Exhausted"
    /\ Len(outcomes) = 3
    /\ Len(sleeps) = 2

\* the outcome of the run of the operation that a step of the body made
BodyOutcome == ctxOutcomes'[Len(ctxOutcomes')]

\* C30: every __aenter__ increases attempt by one and nothing else changes
\* it; __aexit__ sleeps the backoff delay and suppresses the failure exactly
\* when the failure is retryable and attempt < max_attempts; any other
\* failure propagates without a sleep, and an exit without failure sleeps
\* nothing.
C30_ContextEnterAndExit ==
    /\ [][(xpc = "idle" /\ xpc' = "body")
          => ctx_attempt' = ctx_attempt + 1]_vars
    /\ [][ctx_attempt' # ctx_attempt => (xpc = "idle" /\ xpc' = "body")]_vars
    /\ [][(xpc = "body" /\ xpc' # "body")
          => /\ (xpc' = "sleeping")
                  <=> (BodyOutcome = "retryable"
                       /\ ctx_attempt < max_attempts)
             /\ xpc' = "sleeping"
                  => /\ ctxRaised' = NoError
                     /\ ctxSleeps' =
                          Append(ctxSleeps,
                                 Min(initial_delay
                                       * Pow(backoff_factor, ctx_attempt - 1),
                                     max_delay))
             /\ xpc' # "sleeping" => ctxSleeps' = ctxSleeps
             /\ BodyOutcome = "ok" => xpc' = "returned"
             /\ (\/ BodyOutcome = "fatal"
                 \/ (BodyOutcome = "retryable"
                     /\ ctx_attempt >= max_attempts))
                  => (xpc' = "raised" /\ ctxRaised'.kind = BodyOutcome)]_vars
    /\ [][(xpc = "sleeping" /\ xpc' # "sleeping")
          => (xpc' = "idle" /\ ctxRaised' = NoError)]_vars

\* C30 witness: with max_attempts = 2 the first retryable failure was
\* suppressed after one sleep and the second has propagated.
C30_Witness ==
    /\ max_attempts = 2
    /\ ctx_attempt = 2
    /\ xpc = "raised"
    /\ ctxRaised.kind = "retryable"
    /\ Len(ctxSleeps) = 1
    /\ ctxOutcomes = <<"retryable", "retryable">>

(***************************************************************************)
(* The order of the timestamps and the release of the limiter's lock       *)
(***************************************************************************)
Sorted(q) == \A i, j \in 1..Len(q) : i <= j => q[i] <= q[j]

\* C39: the timestamp sequence is ordered oldest first in every reachable
\* state, so that pruning from the head removes every timestamp older than
\* the window and no other.
C39_TimestampsSortedOldestFirst ==
    /\ Sorted(requests)
    /\ Prune(requests, now) = WithinWindow(requests, now)

\* C39 witness: two timestamps of different instants are stored and the
\* older one, at the head, is outside the window while the other is not.
C39_Witness ==
    /\ Len(requests) = 2
    /\ requests[1] < requests[2]
    /\ now - requests[1] > window
    /\ now - requests[2] <= window

\* C35: the lock is always released again: a task that holds it (its wake-up
\* time within the clock's range) lets it go once time has advanced, every
\* caller waiting for the lock is then admitted unless it is cancelled, and
\* no task waits for a lock that it holds itself.
C35_LockEventuallyReleased ==
    /\ \A t \in Tasks :
          (lockHolder = t /\ wakeAt[t] <= MaxTime) ~> (lockHolder # t)
    /\ \A u \in Tasks :
          (rpc[u] = "lockwait" /\ lockHolder # NoTask
           /\ wakeAt[lockHolder] <= MaxTime)
          ~> (Admitted(u) \/ Cancelled(u))
    /\ [](\A t \in Tasks : ~(lockHolder = t /\ InQueue(t)))

(***************************************************************************)
(* Attempt bookkeeping over several guarded calls                          *)
(***************************************************************************)
\* C31: the attempt count belongs to one guarded call: in the wrapper and
\* in RetryContext alike, also when an earlier guarded call has succeeded
\* or was exhausted, the operation's n-th run within a call is attempt
\* number n, and a call fails with a retryable error only after
\* max_attempts runs.
C31_AttemptCountPerCall ==
    max_attempts >= 1
    => /\ wpc = "attempting" => attempt + 1 = Len(outcomes) + 1
       /\ xpc = "body" => ctx_attempt = Len(ctxOutcomes) + 1
       /\ (wpc = "raised" /\ raised.kind = "retryable")
            => Len(outcomes) = max_attempts
       /\ (xpc = "raised" /\ ctxRaised.kind = "retryable")
            => Len(ctxOutcomes) = max_attempts

\* C36: for every max_attempts, zero included, a call of the wrapper that
\* has ended has run the operation at least once, and if it returned, it
\* returned the value of the operation's last run.
C36_WrapperCallsAtLeastOnce ==
    /\ wpc \in {"returned", "raised"} => Len(outcomes) >= 1
    /\ wpc = "returned"
         => /\ Len(outcomes) >= 1
            /\ outcomes[Len(outcomes)] = "ok"
            /\ result = Len(outcomes)

(***************************************************************************)
(* Expiry, counters, eviction and invalidation of the cache                *)
(***************************************************************************)
IsExpired(e) == now - e.time >= ttl

\* C32: expiry is lazy: a stored entry that has expired leaves the store
\* only through a get_or_set lookup of its own key, through invalidate or
\* as the entry chosen by an eviction; the passage of time and operations
\* on other keys leave it in place, and it counts toward the size that
\* triggers an eviction.
C32_ExpiryIsLazy ==
    /\ [][\A i \in 1..Len(cache) :
            (IsExpired(cache[i]) /\ IndexOf(cache', cache[i].key) = 0)
            => \/ ev'.op = "miss" /\ ev'.key = cache[i].key
               \/ ev'.op = "invalidate" /\ ev'.key \in {cache[i].key, None}
               \/ ev'.op = "insert" /\ ev'.evicted = cache[i].key]_vars
    /\ [][now' # now => cache' = cache]_vars
    /\ [][\A t \in Callers :
            (Insert(t) /\ IndexOf(cache, ckey[t]) = 0
             /\ Len(cache) = max_size)
            => (ev'.evicted # None /\ Len(cache') = max_size)]_vars

\* C32 witness: an insertion under another key has just left an expired
\* entry in the store, which now holds two entries.
C32_Witness ==
    /\ ev.op = "insert"
    /\ ev.evicted = None
    /\ Len(cache) = 2
    /\ \E i \in 1..Len(cache) :
          IsExpired(cache[i]) /\ cache[i].key # ev.key

\* C33: the hit and miss counters never decrease, whatever the operation;
\* every lookup adds one to exactly one of them, and that count stays when
\* the function then raises or the call is cancelled; get_stats reports
\* total_requests = hits + misses and size = the number of stored entries.
C33_CountersMonotone ==
    /\ [][hits' >= hits /\ misses' >= misses]_vars
    /\ [][\A t \in Callers, k \in Keys :
            Lookup(t, k)
            => \/ hits' = hits + 1 /\ misses' = misses
               \/ hits' = hits /\ misses' = misses + 1]_vars
    /\ [][hits' + misses' # hits + misses
          => (ev'.op \in {"hit", "miss"}
              /\ hits' + misses' = hits + misses + 1)]_vars
    /\ [](/\ misses = fnCalls
          /\ GetStats.total_requests = hits + misses
          /\ GetStats.hits = hits
          /\ GetStats.misses = misses
          /\ GetStats.size = Len(cache))

\* C33 witness: after a hit and two misses the function of the second miss
\* has raised.
C33_Witness ==
    /\ ev.op = "raise"
    /\ hits = 1
    /\ misses = 2
    /\ GetStats.total_requests = 3

\* C37: the eviction run by an insertion never removes the entry just
\* inserted: right after the insertion the key is stored with the value the
\* call returns and the current time, also when the entry evicted carries
\* the same timestamp.
C37_InsertedEntrySurvivesEviction ==
    /\ [][\A t \in Callers :
            Insert(t)
            => Stored(cache', ckey[t])
                 = [key |-> ckey[t], val |-> cval[t], at |-> now]]_vars
    /\ [](ev.op = "insert"
          => (ev.evicted # ev.key /\ Stored(cache, ev.key).val = ev.val))

\* C37 witness: an insertion has evicted an entry of another key that had
\* the same timestamp as the entry inserted.
C37_Witness ==
    /\ ev.op = "insert"
    /\ ev.evicted # None
    /\ ev.evictedTime = now
    /\ Stored(cache, ev.key) = [key |-> ev.key, val |-> ev.val, at |-> now]

\* C34: once invalidate(key) or invalidate() has run, no later hit for the
\* key returns a value that comes from an invocation of the function begun
\* before the invalidation (invocations are numbered in the order they
\* begin, and a value carries the number of its invocation).
C34_NoStaleValueAfterInvalidate ==
    \A k \in Keys, n \in 0..MaxLookups :
        []((ev.op = "invalidate" /\ ev.key \in {k, None} /\ fnCalls = n)
           => [](ev.op = "hit" /\ ev.key = k => ev.val > n))

\* C38: cache_invalidate() called without a key on one decorated function
\* removes the entries cached for that function and leaves the entries
\* cached for the other decorated functions as they are.
C38_InvalidateOnlyOwnEntries ==
    [][\A f \in Funcs :
         CacheInvalidate(f)
         => /\ Stored(cache', f) = NoPrev
            /\ \A g \in Funcs \ {f} :
                  Stored(cache', g) = Stored(cache, g)]_vars

====
